---- MODULE Spec2Model ----
(***************************************************************************)
(* Model of mcp.shared.proxy.mcp_proxy: two forward_messages tasks, one   *)
(* per direction, run inside one anyio task group whose cancel scope is   *)
(* cancelled when the caller leaves the `async with mcp_proxy(...)` body.  *)
(*                                                                         *)
(* Direction "c2s" is forward_messages(client_read, server_write,         *)
(* on_client_message, "client->server"); "s2c" is forward_messages(       *)
(* server_read, client_write, on_server_message, "server->client").       *)
(* Every per-direction variable is indexed by the direction whose task    *)
(* uses it: inbound["c2s"] is client_read, sent["c2s"] is what has been   *)
(* accepted by server_write, and so on.                                    *)
(***************************************************************************)
EXTENDS Integers, Sequences, FiniteSets, TLC

\* Bound on the number of items the two transports produce in one session.
MaxItems == 3

\* Bound on the number of streams that are, at one time, closed or not taking
\* items.
MaxDisturbed == 1

Dir == {"c2s", "s2c"}

Other(d) == IF d = "c2s" THEN "s2c" ELSE "c2s"

\* Values carried by the channels and passed to the callbacks.  The k-th item a
\* transport produces on a direction carries k, so every item is distinct.
NoMsg == <<"None", 0>>
Msg(k) == <<"msg", k>>              \* a SessionMessage read from the transport
Replaced(k) == <<"msg2", k>>        \* a different SessionMessage made by a hook
TransportErr(k) == <<"exc", k>>     \* an Exception delivered on a read stream
HookErr(k) == <<"hookfail", k>>     \* the exception a transform hook raised
SendErr(k) == <<"sendfail", k>>     \* Closed/BrokenResourceError from send()
HandlerErr == <<"handlerfail", 0>>  \* the exception onerror itself raised

IsException(item) == item[1] = "exc"

VARIABLES
    scope,         \* lifetime of the task group: "NotStarted", "Running", "Cancelling", "Exited"
    onerror,       \* the onerror callback: "none", "returns", "raises", "raises_first"
    transform_fn,  \* per direction: "none" or "hook"
    pc,            \* per direction: where the forward_messages task is
    message,       \* per direction: the item taken from read_stream
    outgoing,      \* per direction: the message handed to write_stream.send
    inbound,       \* per direction: items buffered in read_stream
    inState,       \* per direction: "open", "eos" (sender closed), "closed" (receiver closed)
    produced,      \* per direction: every item the transport has put on read_stream
    sent,          \* per direction: every message write_stream has accepted, in order
    outState,      \* per direction: "ready", "full" (a send would wait), "closed"
    reported,      \* per direction: arguments of the onerror calls made by that task
    hooklog        \* per direction: <<input, result>> of every transform_fn call

vars == <<scope, onerror, transform_fn, pc, message, outgoing, inbound,
          inState, produced, sent, outState, reported, hooklog>>

config == <<onerror, transform_fn>>

RunningPcs == {"recv", "hook", "send"}
EndedPcs == {"done", "cancelled", "crashed"}

Range(s) == {s[i] : i \in 1..Len(s)}

IsPrefix(s, t) == Len(s) <= Len(t) /\ SubSeq(t, 1, Len(s)) = s

\* The SessionMessages among the items of a read stream, in order.
MsgsOf(items) == SelectSeq(items, LAMBDA x : ~IsException(x))

\* The Exceptions among the items of a read stream, in order.
ExcsOf(items) == SelectSeq(items, IsException)

TotalProduced == Len(produced["c2s"]) + Len(produced["s2c"])

\* Number of onerror calls made so far (the callback is shared by both tasks).
TotalCalls == Len(reported["c2s"]) + Len(reported["s2c"])

\* Number of streams that are not open and ready.
Disturbed ==
    Cardinality({d \in Dir : inState[d] # "open"})
        + Cardinality({d \in Dir : outState[d] # "ready"})

Pending == <<"pending", 0>>         \* result slot of a hook call still in progress

----------------------------------------------------------------------------
(* The onerror callback.  It is a plain (synchronous) function, so a call  *)
(* and everything the except clauses do after it happen without the task   *)
(* ever suspending.                                                        *)

\* Whether the call made after n earlier calls raises.
HandlerRaises(n) ==
    \/ onerror = "raises"
    \/ onerror = "raises_first" /\ n = 0

\* Mutant of ReportUnexpected: an exception raised by onerror at loop level is
\* swallowed and forward_messages returns.
ReportUnexpectedSwallowed(exc, n) ==
    IF onerror = "none" THEN [calls |-> <<>>, next |-> "done"]
    ELSE [calls |-> <<exc>>, next |-> "done"]

\* except Exception at loop level (lines 133-136): the for loop has been left;
\* onerror(exc) is called and, when it returns, forward_messages returns.
ReportUnexpected(exc, n) ==
    IF onerror = "none" THEN [calls |-> <<>>, next |-> "done"]
    ELSE IF ~HandlerRaises(n) THEN [calls |-> <<exc>>, next |-> "done"]
    ELSE [calls |-> <<exc>>, next |-> "crashed"]

\* Mutant of ReportFailure: the failure is reported and the loop is left.
ReportFailureAndStop(exc, n) ==
    IF onerror = "none" THEN [calls |-> <<>>, next |-> "done"]
    ELSE [calls |-> <<exc>>, next |-> "done"]

\* Mutant of ReportFailure: the failure is swallowed without calling onerror.
ReportFailureUnreported(exc, n) == [calls |-> <<>>, next |-> "recv"]

\* except Exception at item level (lines 124-128): onerror(exc), then the loop
\* goes on to the next item; an exception raised by onerror leaves the loop.
ReportFailure(exc, n) ==
    IF onerror = "none" THEN [calls |-> <<>>, next |-> "recv"]
    ELSE IF ~HandlerRaises(n) THEN [calls |-> <<exc>>, next |-> "recv"]
    ELSE LET r == ReportUnexpected(HandlerErr, n + 1)
         IN  [calls |-> <<exc>> \o r.calls, next |-> r.next]

\* Mutant of ReportItem: the Exception is reported and then falls through to
\* the item-level except clause, which reports it again.
ReportItemTwice(exc, n) ==
    IF onerror = "none" THEN [calls |-> <<>>, next |-> "recv"]
    ELSE [calls |-> <<exc, exc>>, next |-> "recv"]

\* An Exception read from the stream (lines 105-109): onerror(message), continue;
\* an exception raised by onerror is caught by the item-level except clause.
ReportItem(exc, n) ==
    IF onerror = "none" THEN [calls |-> <<>>, next |-> "recv"]
    ELSE IF ~HandlerRaises(n) THEN [calls |-> <<exc>>, next |-> "recv"]
    ELSE LET r == ReportFailure(HandlerErr, n + 1)
         IN  [calls |-> <<exc>> \o r.calls, next |-> r.next]

----------------------------------------------------------------------------
(* The task group and its cancel scope.                                    *)

\* tg.cancel_scope.cancel() has been called (line 161), or the task group
\* cancelled its scope because a child task raised.
CancelRequested == scope \in {"Cancelling", "Exited"}

\* Mutant of Runnable: one task forwards both directions, so a direction cannot
\* move while the other one is waiting in a send.
RunnableInTurn(d) ==
    /\ pc[d] \in RunningPcs
    /\ ~CancelRequested
    /\ pc[IF d = "c2s" THEN "s2c" ELSE "c2s"] # "send"

\* Mutant of Runnable: the tasks do not observe the cancellation of their scope.
RunnableAfterCancel(d) == pc[d] \in RunningPcs

\* A forward_messages task can take its next step: each direction is its own
\* task (lines 140-153) and runs unless its scope has been cancelled.
Runnable(d) == pc[d] \in RunningPcs /\ ~CancelRequested

\* The scope after a task step that left the task in state p: an exception that
\* leaves a child task makes the task group cancel its scope.
ScopeAfter(p) == IF p = "crashed" THEN "Cancelling" ELSE scope

\* Mutant of Forwarded: the message overtakes the messages sent before it.
ForwardedOutOfOrder(out, m) == <<m>> \o out

\* Mutant of Forwarded: the message is put on the write stream twice.
ForwardedTwice(out, m) == out \o <<m, m>>

\* What write_stream holds after send(m) has completed (lines 119, 122).
Forwarded(out, m) == Append(out, m)

\* Mutant of Outgoing: a hook result of None falls back to the original message.
OutgoingOrOriginal(m, r) == IF r = NoMsg THEN m ELSE r

\* Mutant of Outgoing: the original message is sent instead of the hook's result.
OutgoingOriginal(m, r) == IF r = NoMsg THEN NoMsg ELSE m

\* What the loop sends after transform_fn(m) returned r (lines 113-119).
Outgoing(m, r) == r

\* What the loop sends when no transform_fn is configured (line 122).
AsIs(m) == m

\* The results a transform hook may return for m: the message itself, another
\* message, or None.
HookResults(m) == {m, Replaced(m[2]), NoMsg}

----------------------------------------------------------------------------
Init ==
    /\ scope = "NotStarted"
    /\ onerror \in {"none", "returns", "raises", "raises_first"}
    /\ transform_fn \in [Dir -> {"none", "hook"}]
    /\ pc = [d \in Dir |-> "idle"]
    /\ message = [d \in Dir |-> NoMsg]
    /\ outgoing = [d \in Dir |-> NoMsg]
    /\ inbound = [d \in Dir |-> <<>>]
    /\ inState = [d \in Dir |-> "open"]
    /\ produced = [d \in Dir |-> <<>>]
    /\ sent = [d \in Dir |-> <<>>]
    /\ outState = [d \in Dir |-> "ready"]
    /\ reported = [d \in Dir |-> <<>>]
    /\ hooklog = [d \in Dir |-> <<>>]

(* ---- the caller and the task group (lines 138-161) ---- *)

\* Mutant of Enter: only the client-to-server task is started.
EnterOneDirection ==
    /\ scope = "NotStarted"
    /\ scope' = "Running"
    /\ pc' = [pc EXCEPT !["c2s"] = "recv"]
    /\ UNCHANGED <<config, message, outgoing, inbound, inState, produced, sent,
                   outState, reported, hooklog>>

\* async with mcp_proxy(...): both tasks are started, then control returns to
\* the caller at the yield.
Enter ==
    /\ scope = "NotStarted"
    /\ scope' = "Running"
    /\ pc' = [d \in Dir |-> "recv"]
    /\ UNCHANGED <<config, message, outgoing, inbound, inState, produced, sent,
                   outState, reported, hooklog>>

\* The caller leaves the body (normally, or because it was cancelled from
\* outside): the finally clause cancels the task group's scope.
Exit ==
    /\ scope = "Running"
    /\ scope' = "Cancelling"
    /\ UNCHANGED <<config, pc, message, outgoing, inbound, inState, produced,
                   sent, outState, reported, hooklog>>

\* The task group's __aexit__ returns once both tasks have ended.
Exited ==
    /\ scope = "Cancelling"
    /\ \A d \in Dir : pc[d] \in EndedPcs
    /\ scope' = "Exited"
    /\ UNCHANGED <<config, pc, message, outgoing, inbound, inState, produced,
                   sent, outState, reported, hooklog>>

(* ---- forward_messages (lines 94-136) ---- *)

\* async for yields an Exception: lines 105-109, and the except clauses when
\* onerror raises.
RecvException(d) ==
    /\ pc[d] = "recv" /\ Runnable(d)
    /\ inState[d] # "closed" /\ inbound[d] # <<>>
    /\ IsException(Head(inbound[d]))
    /\ LET r == ReportItem(Head(inbound[d]), TotalCalls)
       IN  /\ reported' = [reported EXCEPT ![d] = @ \o r.calls]
           /\ pc' = [pc EXCEPT ![d] = r.next]
           /\ scope' = ScopeAfter(r.next)
    /\ inbound' = [inbound EXCEPT ![d] = Tail(@)]
    /\ UNCHANGED <<config, message, outgoing, inState, produced, sent, outState,
                   hooklog>>

\* Mutant of RecvMessage: the hook is called a second time on the message it
\* was just given.
RecvMessageHookTwice(d) ==
    /\ pc[d] = "recv" /\ Runnable(d)
    /\ inState[d] # "closed" /\ inbound[d] # <<>>
    /\ ~IsException(Head(inbound[d]))
    /\ LET m == Head(inbound[d])
       IN  /\ message' = [message EXCEPT ![d] = m]
           /\ IF transform_fn[d] = "hook"
              THEN /\ pc' = [pc EXCEPT ![d] = "hook"]
                   /\ hooklog' = [hooklog EXCEPT
                                     ![d] = @ \o << <<m, m>>, <<m, Pending>> >>]
                   /\ UNCHANGED outgoing
              ELSE /\ pc' = [pc EXCEPT ![d] = "send"]
                   /\ outgoing' = [outgoing EXCEPT ![d] = AsIs(m)]
                   /\ UNCHANGED hooklog
    /\ inbound' = [inbound EXCEPT ![d] = Tail(@)]
    /\ UNCHANGED <<scope, config, inState, produced, sent, outState, reported>>

\* async for yields a SessionMessage: transform_fn is called when configured,
\* otherwise the message goes to write_stream.send as it is.
RecvMessage(d) ==
    /\ pc[d] = "recv" /\ Runnable(d)
    /\ inState[d] # "closed" /\ inbound[d] # <<>>
    /\ ~IsException(Head(inbound[d]))
    /\ LET m == Head(inbound[d])
       IN  /\ message' = [message EXCEPT ![d] = m]
           /\ IF transform_fn[d] = "hook"
              THEN /\ pc' = [pc EXCEPT ![d] = "hook"]
                   /\ hooklog' = [hooklog EXCEPT ![d] = Append(@, <<m, Pending>>)]
                   /\ UNCHANGED outgoing
              ELSE /\ pc' = [pc EXCEPT ![d] = "send"]
                   /\ outgoing' = [outgoing EXCEPT ![d] = AsIs(m)]
                   /\ UNCHANGED hooklog
    /\ inbound' = [inbound EXCEPT ![d] = Tail(@)]
    /\ UNCHANGED <<scope, config, inState, produced, sent, outState, reported>>

\* Mutant of EndOfStream: at end-of-stream the loop cancels the task group, so
\* the other direction is stopped as well.
EndOfStreamStopsBoth(d) ==
    /\ pc[d] = "recv" /\ Runnable(d)
    /\ inState[d] = "eos" /\ inbound[d] = <<>>
    /\ pc' = [pc EXCEPT ![d] = "done"]
    /\ scope' = "Cancelling"
    /\ UNCHANGED <<config, message, outgoing, inbound, inState, produced, sent,
                   outState, reported, hooklog>>

\* Mutant of EndOfStream: at end-of-stream the loop closes its write stream to
\* pass the end-of-stream on.
EndOfStreamClosesWriter(d) ==
    /\ pc[d] = "recv" /\ Runnable(d)
    /\ inState[d] = "eos" /\ inbound[d] = <<>>
    /\ pc' = [pc EXCEPT ![d] = "done"]
    /\ outState' = [outState EXCEPT ![d] = "closed"]
    /\ UNCHANGED <<scope, config, message, outgoing, inbound, inState, produced,
                   sent, reported, hooklog>>

\* The read stream is exhausted and its sending end is closed: async for ends
\* and forward_messages returns.
EndOfStream(d) ==
    /\ pc[d] = "recv" /\ Runnable(d)
    /\ inState[d] = "eos" /\ inbound[d] = <<>>
    /\ pc' = [pc EXCEPT ![d] = "done"]
    /\ UNCHANGED <<scope, config, message, outgoing, inbound, inState, produced,
                   sent, outState, reported, hooklog>>

\* Mutant of ReadClosed: ClosedResourceError is handled like any other
\* exception that leaves the loop and is passed to onerror.
ReadClosedReported(d) ==
    /\ pc[d] = "recv" /\ Runnable(d)
    /\ inState[d] = "closed"
    /\ LET r == ReportUnexpected(<<"closedresource", 0>>, TotalCalls)
       IN  /\ reported' = [reported EXCEPT ![d] = @ \o r.calls]
           /\ pc' = [pc EXCEPT ![d] = r.next]
           /\ scope' = ScopeAfter(r.next)
    /\ UNCHANGED <<config, message, outgoing, inbound, inState, produced, sent,
                   outState, hooklog>>

\* The read stream itself was closed: receive raises ClosedResourceError, which
\* the loop-level except clause swallows (lines 130-132).
ReadClosed(d) ==
    /\ pc[d] = "recv" /\ Runnable(d)
    /\ inState[d] = "closed"
    /\ pc' = [pc EXCEPT ![d] = "done"]
    /\ UNCHANGED <<scope, config, message, outgoing, inbound, inState, produced,
                   sent, outState, reported, hooklog>>

\* Mutant of HookReturn: a result of None is treated as a failed transform and
\* passed to the item-level except clause.
HookReturnDropReported(d, r) ==
    /\ pc[d] = "hook" /\ Runnable(d)
    /\ hooklog' = [hooklog EXCEPT ![d] = [@ EXCEPT ![Len(@)] = <<message[d], r>>]]
    /\ IF Outgoing(message[d], r) = NoMsg
       THEN LET f == ReportFailure(HookErr(message[d][2]), TotalCalls)
            IN  /\ pc' = [pc EXCEPT ![d] = f.next]
                /\ reported' = [reported EXCEPT ![d] = @ \o f.calls]
                /\ scope' = ScopeAfter(f.next)
                /\ message' = [message EXCEPT ![d] = NoMsg]
                /\ UNCHANGED outgoing
       ELSE /\ pc' = [pc EXCEPT ![d] = "send"]
            /\ outgoing' = [outgoing EXCEPT ![d] = Outgoing(message[d], r)]
            /\ UNCHANGED <<message, scope, reported>>
    /\ UNCHANGED <<config, inbound, inState, produced, sent, outState>>

\* await transform_fn(message) returns r (lines 113-119).
HookReturn(d, r) ==
    /\ pc[d] = "hook" /\ Runnable(d)
    /\ hooklog' = [hooklog EXCEPT ![d] = [@ EXCEPT ![Len(@)] = <<message[d], r>>]]
    /\ IF Outgoing(message[d], r) = NoMsg
       THEN /\ pc' = [pc EXCEPT ![d] = "recv"]
            /\ message' = [message EXCEPT ![d] = NoMsg]
            /\ UNCHANGED outgoing
       ELSE /\ pc' = [pc EXCEPT ![d] = "send"]
            /\ outgoing' = [outgoing EXCEPT ![d] = Outgoing(message[d], r)]
            /\ UNCHANGED message
    /\ UNCHANGED <<scope, config, inbound, inState, produced, sent, outState,
                   reported>>

\* await transform_fn(message) raises: the item-level except clause.
HookRaise(d) ==
    /\ pc[d] = "hook" /\ Runnable(d)
    /\ LET e == HookErr(message[d][2])
           r == ReportFailure(e, TotalCalls)
       IN  /\ hooklog' = [hooklog EXCEPT ![d] = [@ EXCEPT ![Len(@)] = <<message[d], e>>]]
           /\ reported' = [reported EXCEPT ![d] = @ \o r.calls]
           /\ pc' = [pc EXCEPT ![d] = r.next]
           /\ scope' = ScopeAfter(r.next)
    /\ message' = [message EXCEPT ![d] = NoMsg]
    /\ UNCHANGED <<config, outgoing, inbound, inState, produced, sent, outState>>

\* Mutant of Send: the task sends on the write stream of the side the message
\* came from (client_read to client_write, server_read to server_write).
SendEcho(d) ==
    /\ pc[d] = "send" /\ Runnable(d)
    /\ outState[d] = "ready"
    /\ sent' = [sent EXCEPT ![Other(d)] = Forwarded(@, outgoing[d])]
    /\ pc' = [pc EXCEPT ![d] = "recv"]
    /\ message' = [message EXCEPT ![d] = NoMsg]
    /\ outgoing' = [outgoing EXCEPT ![d] = NoMsg]
    /\ UNCHANGED <<scope, config, inbound, inState, produced, outState, reported,
                   hooklog>>

\* await write_stream.send(...) completes.
Send(d) ==
    /\ pc[d] = "send" /\ Runnable(d)
    /\ outState[d] = "ready"
    /\ sent' = [sent EXCEPT ![d] = Forwarded(@, outgoing[d])]
    /\ pc' = [pc EXCEPT ![d] = "recv"]
    /\ message' = [message EXCEPT ![d] = NoMsg]
    /\ outgoing' = [outgoing EXCEPT ![d] = NoMsg]
    /\ UNCHANGED <<scope, config, inbound, inState, produced, outState, reported,
                   hooklog>>

\* await write_stream.send(...) raises because the stream is closed or broken:
\* the item-level except clause.
SendFail(d) ==
    /\ pc[d] = "send" /\ Runnable(d)
    /\ outState[d] = "closed"
    /\ LET r == ReportFailure(SendErr(message[d][2]), TotalCalls)
       IN  /\ reported' = [reported EXCEPT ![d] = @ \o r.calls]
           /\ pc' = [pc EXCEPT ![d] = r.next]
           /\ scope' = ScopeAfter(r.next)
    /\ message' = [message EXCEPT ![d] = NoMsg]
    /\ outgoing' = [outgoing EXCEPT ![d] = NoMsg]
    /\ UNCHANGED <<config, inbound, inState, produced, sent, outState, hooklog>>

\* Mutant of Cancelled: a task is cancelled only while it waits for the next
\* item, not inside a transform hook or a send.
CancelledOnlyAtReceive(d) ==
    /\ pc[d] = "recv"
    /\ CancelRequested
    /\ pc' = [pc EXCEPT ![d] = "cancelled"]
    /\ message' = [message EXCEPT ![d] = NoMsg]
    /\ outgoing' = [outgoing EXCEPT ![d] = NoMsg]
    /\ UNCHANGED <<scope, config, inbound, inState, produced, sent, outState,
                   reported, hooklog>>

\* The task is cancelled at the await it is suspended in (receive, the hook or
\* send): the cancellation exception is not an Exception, so no except clause
\* of forward_messages catches it.
Cancelled(d) ==
    /\ pc[d] \in RunningPcs
    /\ CancelRequested
    /\ pc' = [pc EXCEPT ![d] = "cancelled"]
    /\ message' = [message EXCEPT ![d] = NoMsg]
    /\ outgoing' = [outgoing EXCEPT ![d] = NoMsg]
    /\ UNCHANGED <<scope, config, inbound, inState, produced, sent, outState,
                   reported, hooklog>>

(* ---- the transports and the caller owning the streams ---- *)

\* A transport puts a SessionMessage or an Exception on a read stream.
Produce(d, exc) ==
    /\ scope = "Running"
    /\ inState[d] = "open"
    /\ TotalProduced < MaxItems
    /\ LET k == Len(produced[d]) + 1
           item == IF exc THEN TransportErr(k) ELSE Msg(k)
       IN  /\ inbound' = [inbound EXCEPT ![d] = Append(@, item)]
           /\ produced' = [produced EXCEPT ![d] = Append(@, item)]
    /\ UNCHANGED <<scope, config, pc, message, outgoing, inState, sent, outState,
                   reported, hooklog>>

\* The transport closes the sending end of a read stream: end-of-stream.
CloseSender(d) ==
    /\ scope = "Running"
    /\ inState[d] = "open" /\ Disturbed < MaxDisturbed
    /\ inState' = [inState EXCEPT ![d] = "eos"]
    /\ UNCHANGED <<scope, config, pc, message, outgoing, inbound, produced, sent,
                   outState, reported, hooklog>>

\* The owner of a read stream closes the receiving end.
CloseReceiver(d) ==
    /\ scope = "Running"
    /\ inState[d] # "closed"
    /\ inState[d] = "open" => Disturbed < MaxDisturbed
    /\ inState' = [inState EXCEPT ![d] = "closed"]
    /\ UNCHANGED <<scope, config, pc, message, outgoing, inbound, produced, sent,
                   outState, reported, hooklog>>

\* The consumer of a write stream stops taking items: a send would wait.
ConsumerStalls(d) ==
    /\ scope = "Running"
    /\ outState[d] = "ready" /\ Disturbed < MaxDisturbed
    /\ outState' = [outState EXCEPT ![d] = "full"]
    /\ UNCHANGED <<scope, config, pc, message, outgoing, inbound, inState,
                   produced, sent, reported, hooklog>>

\* The consumer of a write stream takes items again.
ConsumerTakes(d) ==
    /\ scope = "Running"
    /\ outState[d] = "full"
    /\ outState' = [outState EXCEPT ![d] = "ready"]
    /\ UNCHANGED <<scope, config, pc, message, outgoing, inbound, inState,
                   produced, sent, reported, hooklog>>

\* A write stream (or its receiving end) is closed by its owner.
CloseOutbound(d) ==
    /\ scope = "Running"
    /\ outState[d] # "closed"
    /\ outState[d] = "ready" => Disturbed < MaxDisturbed
    /\ outState' = [outState EXCEPT ![d] = "closed"]
    /\ UNCHANGED <<scope, config, pc, message, outgoing, inbound, inState,
                   produced, sent, reported, hooklog>>

TaskStep(d) ==
    \/ RecvException(d)
    \/ RecvMessage(d)
    \/ EndOfStream(d)
    \/ ReadClosed(d)
    \/ \E r \in HookResults(message[d]) : HookReturn(d, r)
    \/ HookRaise(d)
    \/ Send(d)
    \/ SendFail(d)
    \/ Cancelled(d)

EnvStep(d) ==
    \/ \E exc \in BOOLEAN : Produce(d, exc)
    \/ CloseSender(d)
    \/ CloseReceiver(d)
    \/ ConsumerStalls(d)
    \/ ConsumerTakes(d)
    \/ CloseOutbound(d)

Next ==
    \/ Enter
    \/ Exit
    \/ Exited
    \/ \E d \in Dir : TaskStep(d)
    \/ \E d \in Dir : EnvStep(d)

Spec == Init /\ [][Next]_vars

----------------------------------------------------------------------------
(* Properties.                                                             *)

\* Every item put on d's read stream has been read and dealt with, and the
\* task is waiting for the next item or has returned.
Settled(d) == inbound[d] = <<>> /\ pc[d] \in {"recv", "done"}

\* C1 (order preservation): with no transform hook configured for a direction,
\* the messages accepted by that direction's write stream are always a prefix
\* of the messages put on its read stream, in the same order, and once every
\* item has been dealt with and the write stream was never closed they are
\* exactly those messages.
C1_OrderPreservation ==
    \A d \in Dir :
        transform_fn[d] = "none" =>
            /\ IsPrefix(sent[d], MsgsOf(produced[d]))
            /\ (Settled(d) /\ outState[d] # "closed")
                   => sent[d] = MsgsOf(produced[d])

\* Witness of C1: R1, R2, R3 were put on a read stream without transform hook
\* and the write stream has received R1, R2, R3.
C1_Witness ==
    \E d \in Dir :
        /\ transform_fn[d] = "none"
        /\ produced[d] = <<Msg(1), Msg(2), Msg(3)>>
        /\ sent[d] = <<Msg(1), Msg(2), Msg(3)>>

\* C2 (cancellation completeness): in a step taken once the caller has left the
\* scope (the cancel scope is cancelled or the exit has completed), nothing is
\* sent on either write stream.
C2_NoSendAfterExit ==
    [][(scope \in {"Cancelling", "Exited"}) => (sent' = sent)]_vars

\* Witness of C2: the scope exit has completed while a read stream still holds
\* items and its write stream would take them.
C2_Witness ==
    /\ scope = "Exited"
    /\ \E d \in Dir : Len(inbound[d]) >= 2 /\ outState[d] = "ready"
                        /\ inState[d] = "open" /\ sent[d] # <<>>

IsRunning(d) == pc[d] \in RunningPcs

\* C3 as stated: while the caller is inside the scope, either both forwarding
\* loops are running or neither is.
C3_NeverOnlyOneRunning ==
    scope = "Running" => (IsRunning("c2s") <=> IsRunning("s2c"))

\* C3 (amended): both loops are started together on entry, no loop is running
\* any more when the scope exit has completed, and while the caller is inside
\* the scope a loop that is not running has returned by itself (its read stream
\* ended or was closed, or the loop was left through the error handler).
C3_StartedAndStoppedTogether ==
    /\ scope = "NotStarted" => \A d \in Dir : pc[d] = "idle"
    /\ scope # "NotStarted" => \A d \in Dir : pc[d] # "idle"
    /\ scope = "Running" => \A d \in Dir : IsRunning(d) \/ pc[d] = "done"
    /\ scope = "Exited" => \A d \in Dir : ~IsRunning(d)

\* Witness of C3: the caller is inside the scope, the client-to-server loop has
\* returned at end-of-stream and the server-to-client loop has gone on
\* forwarding.
C3_Witness ==
    /\ scope = "Running"
    /\ pc["c2s"] = "done" /\ inState["c2s"] = "eos"
    /\ IsRunning("s2c") /\ sent["s2c"] # <<>>

\* C4 as stated: an error in one direction's per-message processing, including
\* what happens while it is reported to the error handler, never leaves that
\* direction's task as an exception, so it never gets the other direction's
\* loop cancelled nor the session torn down.
C4_ErrorsNeverEscalate ==
    \A d \in Dir :
        pc[d] = "crashed" => (pc[Other(d)] # "cancelled" /\ scope # "Exited")

IsMsg(x) == x[1] \in {"msg", "msg2"}

Last(s) == s[Len(s)]

\* The onerror call made next returns normally.
HandlerReturnsNow == onerror # "none" /\ ~HandlerRaises(TotalCalls)

\* C5 (error isolation), for an error handler that returns normally: a
\* transport error on a read stream is reported exactly once, in order, and
\* does not end the loop; when a read stream delivered [M1, E, M2] (any mix of
\* messages and errors) with no transform hook and the write stream open, the
\* write stream has received exactly the messages, in order, and the handler
\* was called by that direction exactly once per error, with that error.
C5_ErrorIsolation ==
    \A d \in Dir :
        onerror = "returns" =>
            /\ pc[d] # "crashed"
            /\ pc[d] = "done" => inState[d] # "open"
            /\ IsPrefix(SelectSeq(reported[d], IsException), ExcsOf(produced[d]))
            /\ Settled(d) => SelectSeq(reported[d], IsException) = ExcsOf(produced[d])
            /\ (Settled(d) /\ transform_fn[d] = "none" /\ outState[d] # "closed")
                   => /\ sent[d] = MsgsOf(produced[d])
                      /\ reported[d] = ExcsOf(produced[d])

\* Witness of C5: [M1, E, M2] was delivered; [M1, M2] was forwarded and the
\* handler was called once, with E.
C5_Witness ==
    /\ onerror = "returns"
    /\ produced["c2s"] = <<Msg(1), TransportErr(2), Msg(3)>>
    /\ sent["c2s"] = <<Msg(1), Msg(3)>>
    /\ reported["c2s"] = <<TransportErr(2)>>
    /\ reported["s2c"] = <<>>

\* The step in which d's transform hook returns None.
DropStep(d) ==
    /\ pc[d] = "hook" /\ pc'[d] # "hook"
    /\ Len(hooklog'[d]) = Len(hooklog[d])
    /\ Last(hooklog'[d])[2] = NoMsg

\* C7 (drop semantics): a message for which the transform hook returned None
\* never appears on the write stream (nor anything else in its place); the drop
\* sends nothing and leaves the loop waiting for the next item, and once every
\* item is dealt with and the write stream is open, every message the hook did
\* return, before or after the drop, has been forwarded.
C7_DropSemantics ==
    /\ [](\A d \in Dir : \A i \in 1..Len(hooklog[d]) :
            hooklog[d][i][2] = NoMsg =>
                /\ hooklog[d][i][1] \notin Range(sent[d])
                /\ Replaced(hooklog[d][i][1][2]) \notin Range(sent[d])
                /\ (Settled(d) /\ outState[d] # "closed") =>
                       \A j \in 1..Len(hooklog[d]) :
                           IsMsg(hooklog[d][j][2]) => hooklog[d][j][2] \in Range(sent[d]))
    /\ [][\A d \in Dir : DropStep(d) =>
            (pc'[d] = "recv" /\ sent' = sent /\ scope' = scope)]_vars

\* Witness of C7: the hook dropped the first message and the second one has
\* been forwarded.
C7_Witness ==
    \E d \in Dir :
        /\ Len(hooklog[d]) >= 2
        /\ hooklog[d][1] = <<Msg(1), NoMsg>>
        /\ hooklog[d][2][1] = Msg(2)
        /\ sent[d] = <<hooklog[d][2][2]>>

\* C8 (replacement semantics): whatever is appended to a write stream is the
\* transform hook's result for the message being processed (the message itself
\* only when no hook is configured), and a message for which the hook returned
\* a different message is never sent itself.
C8_ReplacementSemantics ==
    /\ [](\A d \in Dir : \A i \in 1..Len(hooklog[d]) :
            (IsMsg(hooklog[d][i][2]) /\ hooklog[d][i][2] # hooklog[d][i][1])
                => hooklog[d][i][1] \notin Range(sent[d]))
    /\ [][\A d \in Dir : sent'[d] # sent[d] =>
            sent'[d] = Append(sent[d], IF transform_fn[d] = "hook"
                                       THEN Last(hooklog[d])[2]
                                       ELSE message[d])]_vars

\* Witness of C8: the hook returned M' for M and M' is on the write stream.
C8_Witness ==
    \E d \in Dir :
        /\ hooklog[d] # <<>>
        /\ hooklog[d][1] = <<Msg(1), Replaced(1)>>
        /\ sent[d] # <<>> /\ sent[d][1] = Replaced(1)

\* The step in which d's pending send fails because the write stream is closed.
SendFailStep(d) ==
    /\ pc[d] = "send" /\ outState[d] = "closed" /\ scope = "Running"
    /\ pc'[d] # "send"

SendErrsOf(calls) == SelectSeq(calls, LAMBDA x : x[1] = "sendfail")

\* C9 (send failure is non-fatal): a failed send sends nothing and is reported
\* to the error handler when there is one; when the handler returns (or there
\* is none) the loop goes back to reading the next item and the scope is left
\* alone.  With such a handler the loop returns only when its read stream has
\* ended or was closed, and every message read was either accepted by the write
\* stream or reported as a failed send.
C9_SendFailureNonFatal ==
    /\ [](\A d \in Dir :
            /\ (onerror \in {"none", "returns"} /\ pc[d] = "done")
                   => inState[d] # "open"
            /\ (onerror = "returns" /\ transform_fn[d] = "none" /\ Settled(d))
                   => Len(sent[d]) + Len(SendErrsOf(reported[d]))
                          = Len(MsgsOf(produced[d])))
    /\ [][\A d \in Dir : SendFailStep(d) =>
            /\ sent' = sent
            /\ onerror = "none" => (reported' = reported /\ pc'[d] = "recv")
            /\ onerror # "none" =>
                   /\ Len(reported'[d]) > Len(reported[d])
                   /\ reported'[d][Len(reported[d]) + 1] = SendErr(message[d][2])
            /\ HandlerReturnsNow =>
                   /\ reported'[d] = Append(reported[d], SendErr(message[d][2]))
                   /\ pc'[d] = "recv"
                   /\ scope' = scope]_vars

\* Witness of C9: two sends in a row failed and each was reported; the loop is
\* reading again.
C9_Witness ==
    \E d \in Dir :
        /\ onerror = "returns"
        /\ reported[d] = <<SendErr(1), SendErr(2)>>
        /\ pc[d] = "recv"

\* The step in which d's transform hook raises.
HookRaiseStep(d) ==
    /\ pc[d] = "hook" /\ pc'[d] # "hook"
    /\ Len(hooklog'[d]) = Len(hooklog[d])
    /\ Last(hooklog'[d])[2] = HookErr(message[d][2])

\* C10 (transform failure is non-fatal): when the transform hook raises, the
\* failure is reported to the error handler when there is one, nothing is ever
\* sent for that item, and when the handler returns (or there is none) the loop
\* goes back to reading the next item.
C10_TransformFailureNonFatal ==
    /\ [](\A d \in Dir : \A i \in 1..Len(hooklog[d]) :
            hooklog[d][i][2][1] = "hookfail" =>
                /\ hooklog[d][i][1] \notin Range(sent[d])
                /\ Replaced(hooklog[d][i][1][2]) \notin Range(sent[d]))
    /\ [][\A d \in Dir : HookRaiseStep(d) =>
            /\ sent' = sent
            /\ onerror = "none" => (reported' = reported /\ pc'[d] = "recv")
            /\ onerror # "none" =>
                   /\ Len(reported'[d]) > Len(reported[d])
                   /\ reported'[d][Len(reported[d]) + 1] = HookErr(message[d][2])
            /\ HandlerReturnsNow =>
                   /\ reported'[d] = Append(reported[d], HookErr(message[d][2]))
                   /\ pc'[d] = "recv"
                   /\ scope' = scope]_vars

\* Witness of C10: the hook raised on the first message, the failure was
\* reported, and the second message went through the hook and was forwarded.
C10_Witness ==
    \E d \in Dir :
        /\ onerror = "returns"
        /\ Len(hooklog[d]) >= 2
        /\ hooklog[d][1] = <<Msg(1), HookErr(1)>>
        /\ reported[d] = <<HookErr(1)>>
        /\ sent[d] = <<Msg(2)>>

\* The scheduler runs every task that can take a step; the transform hooks
\* return or raise; the consumer of the client-facing write stream keeps taking
\* items.  Nothing is assumed of the consumer of the server-facing write
\* stream, which may stall for ever, nor of the caller, which may stay in the
\* scope for ever.
Fairness ==
    /\ \A d \in Dir : WF_vars(TaskStep(d))
    /\ SF_vars(Send("s2c"))
    /\ WF_vars(ConsumerTakes("s2c"))

LiveSpec == Init /\ [][Next]_vars /\ Fairness

\* d's task is waiting in a send that its write stream does not take.
Stuck(d) == pc[d] = "send" /\ outState[d] = "full"

\* C6 (directional independence): whenever the client-to-server task is stuck
\* in a send on the server-facing write stream while items are queued on the
\* server-facing read stream, those items are eventually all read and dealt
\* with by the server-to-client task (its messages forwarded to the
\* client-facing write stream when no hook is configured and that stream is
\* open), unless the session ends or the server-facing read stream is closed
\* first; the server-facing write stream may stay blocked for ever.
C6_DirectionalIndependence ==
    (Stuck("c2s") /\ scope = "Running" /\ IsRunning("s2c") /\ inbound["s2c"] # <<>>)
        ~> \/ scope # "Running"
           \/ pc["s2c"] = "done"
           \/ /\ Settled("s2c")
              /\ (transform_fn["s2c"] = "none" /\ outState["s2c"] # "closed")
                     => sent["s2c"] = MsgsOf(produced["s2c"])

\* Witness of C6: the client-to-server task is stuck in its send and the
\* server-to-client task has forwarded two messages and waits for more.
C6_Witness ==
    /\ Stuck("c2s") /\ scope = "Running"
    /\ produced["c2s"] = <<Msg(1)>>
    /\ sent["s2c"] = <<Msg(1), Msg(2)>>
    /\ Settled("s2c")

\* C11 (the proxy never closes a channel): every step that changes the state of
\* a read stream or of a write stream (open, ended, closed, taking items or not)
\* is a step of a transport or of the caller owning the streams; no step of
\* mcp_proxy or of a forwarding loop changes it, whether the step is the end of
\* a loop at end-of-stream, the handling of an error, or the scope exit.
C11_NeverClosesChannels ==
    [][(<<inState, outState>>' # <<inState, outState>>)
          => \E d \in Dir : EnvStep(d)]_vars

\* Witness of C11: the scope exit has completed after one loop returned at
\* end-of-stream and the other one reported an error, and every stream other
\* than the one its transport ended is still open.
C11_Witness ==
    /\ scope = "Exited"
    /\ pc["c2s"] = "done" /\ inState["c2s"] = "eos"
    /\ pc["s2c"] = "cancelled" /\ reported["s2c"] # <<>>
    /\ inState["s2c"] = "open"
    /\ \A d \in Dir : outState[d] = "ready"

\* C12 (a drop is not an error): no onerror call made by a direction's task
\* carries a message for which that direction's transform hook returned None,
\* and a direction whose hook has returned None for every message it was given
\* and whose read stream delivered no Exception has made no onerror call at
\* all.
C12_DropIsNotAnError ==
    \A d \in Dir :
        /\ \A i \in 1..Len(hooklog[d]) :
               hooklog[d][i][2] = NoMsg =>
                   \A j \in 1..Len(reported[d]) :
                       reported[d][j][2] # hooklog[d][i][1][2]
        /\ (/\ transform_fn[d] = "hook"
            /\ \A i \in 1..Len(hooklog[d]) : hooklog[d][i][2] \in {NoMsg, Pending}
            /\ ExcsOf(produced[d]) = <<>>)
               => reported[d] = <<>>

\* Witness of C12: with an error handler configured, the hook dropped the
\* first message and the only onerror call is the one for the transport error
\* that followed it.
C12_Witness ==
    \E d \in Dir :
        /\ onerror = "returns"
        /\ produced[d] = <<Msg(1), TransportErr(2)>>
        /\ hooklog[d] = << <<Msg(1), NoMsg>> >>
        /\ reported[d] = <<TransportErr(2)>>

\* The step in which d's loop, waiting on its exhausted read stream, finds the
\* stream ended.
EndOfStreamStep(d) ==
    /\ scope = "Running"
    /\ pc[d] = "recv" /\ inbound[d] = <<>> /\ inState[d] = "eos"
    /\ pc'[d] # "recv"

\* The error handler raises on some call.
HandlerMayRaise == onerror \in {"raises", "raises_first"}

\* C13 (end-of-stream stops one direction only): the step in which a loop
\* finds its read stream ended makes that loop return and leaves the other
\* loop, what it is doing and the scope as they are; while the caller is in the
\* scope, the other loop is still running unless its own read stream ended or
\* was closed or it was left through a raising error handler; and once the
\* client-to-server loop has returned at end-of-stream, the items queued on
\* the server-facing read stream are eventually all read and dealt with by the
\* server-to-client loop (its messages forwarded when no hook is configured
\* and the client-facing write stream is open), unless the scope is left first
\* or that loop ends for a reason of its own.
C13_EndOfStreamStopsOneDirection ==
    /\ [][\A d \in Dir : EndOfStreamStep(d) =>
            /\ pc'[d] = "done"
            /\ pc'[Other(d)] = pc[Other(d)]
            /\ scope' = scope
            /\ message'[Other(d)] = message[Other(d)]
            /\ outgoing'[Other(d)] = outgoing[Other(d)]
            /\ inbound' = inbound /\ sent' = sent]_vars
    /\ [](\A d \in Dir :
            (/\ scope = "Running" /\ pc[d] = "done" /\ inState[d] = "eos"
             /\ inState[Other(d)] = "open" /\ ~HandlerMayRaise)
                => IsRunning(Other(d)))
    /\ (/\ scope = "Running" /\ pc["c2s"] = "done" /\ inState["c2s"] = "eos"
        /\ IsRunning("s2c") /\ inbound["s2c"] # <<>>)
           ~> \/ scope # "Running"
              \/ pc["s2c"] = "done" /\ (inState["s2c"] # "open" \/ HandlerMayRaise)
              \/ /\ pc["s2c"] = "recv" /\ inbound["s2c"] = <<>>
                 /\ (transform_fn["s2c"] = "none" /\ outState["s2c"] # "closed")
                        => sent["s2c"] = MsgsOf(produced["s2c"])

\* Witness of C13: the client-to-server loop forwarded its message and returned
\* at end-of-stream; the server-to-client loop has forwarded two messages and
\* waits for more, the caller still being in the scope.
C13_Witness ==
    /\ scope = "Running"
    /\ pc["c2s"] = "done" /\ inState["c2s"] = "eos"
    /\ sent["c2s"] = <<Msg(1)>>
    /\ pc["s2c"] = "recv" /\ sent["s2c"] = <<Msg(1), Msg(2)>>

\* In this step d's task passes to onerror, as the first of the calls it makes,
\* a transport error it has just read, the exception its transform hook has
\* just raised, or the failure of the send it was waiting in.
ReportCause(d) ==
    LET first == reported'[d][Len(reported[d]) + 1]
    IN  \/ /\ pc[d] = "recv" /\ inbound[d] # <<>>
           /\ IsException(Head(inbound[d])) /\ first = Head(inbound[d])
           /\ inbound'[d] = Tail(inbound[d])
        \/ /\ pc[d] = "hook"
           /\ first = HookErr(message[d][2])
           /\ Last(hooklog'[d]) = <<message[d], first>>
        \/ /\ pc[d] = "send" /\ outState[d] = "closed"
           /\ first = SendErr(message[d][2])
           /\ sent' = sent

\* C14 (end-of-stream and cancellation are silent): a step in which a task
\* calls onerror is taken while the scope is neither exited nor cancelled, by a
\* task inside its loop, and the first call carries a transport error just
\* read, a transform failure or a send failure (any further call in the same
\* step carries the exception a raising handler has just raised); so a loop
\* that ends at end-of-stream or on a closed read stream, a cancelled task and
\* the scope exit make no onerror call.  Every argument ever passed to onerror
\* is a transport error delivered on that direction, a failure of that
\* direction's hook, a failed send of a message read on that direction, or the
\* handler's own exception.
C14_SilentTermination ==
    /\ [][\A d \in Dir : reported'[d] # reported[d] =>
            /\ scope = "Running" /\ IsRunning(d)
            /\ IsPrefix(reported[d], reported'[d])
            /\ ReportCause(d)
            /\ \A j \in (Len(reported[d]) + 2)..Len(reported'[d]) :
                   reported'[d][j] = HandlerErr /\ HandlerMayRaise]_vars
    /\ [](\A d \in Dir : \A j \in 1..Len(reported[d]) :
            LET e == reported[d][j]
            IN  \/ IsException(e) /\ e \in Range(produced[d]) /\ e \notin Range(inbound[d])
                \/ e[1] = "hookfail" /\ \E i \in 1..Len(hooklog[d]) :
                                            hooklog[d][i] = <<Msg(e[2]), e>>
                \/ e[1] = "sendfail" /\ Msg(e[2]) \in Range(produced[d])
                                     /\ Msg(e[2]) \notin Range(inbound[d])
                                     /\ outState[d] = "closed"
                \/ e = HandlerErr /\ HandlerMayRaise /\ j > 1)

\* Witness of C14: with an error handler configured, one loop forwarded a
\* message and returned at end-of-stream, the other was cancelled by the scope
\* exit while a message was waiting for it, and no onerror call was made.
C14_Witness ==
    /\ onerror = "returns" /\ scope = "Exited"
    /\ pc["c2s"] = "done" /\ inState["c2s"] = "eos" /\ sent["c2s"] # <<>>
    /\ pc["s2c"] = "cancelled" /\ inbound["s2c"] # <<>>
    /\ \A d \in Dir : reported[d] = <<>>

\* The items d's task has taken from its read stream so far, in order.
Consumed(d) == SubSeq(produced[d], 1, Len(produced[d]) - Len(inbound[d]))

\* The arguments of the transform_fn calls d's task has made, in order.
HookInputs(d) == [i \in 1..Len(hooklog[d]) |-> hooklog[d][i][1]]

\* The number of d's transform_fn calls whose outcome is of the given kind.
HookOutcomes(d, kind) ==
    Cardinality({i \in 1..Len(hooklog[d]) : hooklog[d][i][2][1] = kind})

\* 1 when d's task is inside a transform_fn call or a send, else 0.
InProgress(d) == IF pc[d] \in {"hook", "send"} THEN 1 ELSE 0

\* C15 (per-direction serial processing): the transform hook of a direction
\* has been called exactly once for every message taken from the read stream,
\* in the order read, and for nothing else (never for a transport error, never
\* when no hook is configured); only the last call can be in progress, and
\* only while the task is in it; a task waiting for the next item has nothing
\* in progress; and, with an error handler to count the failed sends, the
\* messages taken from the read stream are exactly those sent, dropped, failed
\* in the hook or failed in the send, plus the one in progress, so an item is
\* taken only when the one before it is finished.
C15_SerialProcessing ==
    \A d \in Dir :
        /\ transform_fn[d] = "hook" => HookInputs(d) = MsgsOf(Consumed(d))
        /\ transform_fn[d] = "none" => hooklog[d] = <<>>
        /\ \A i \in 1..Len(hooklog[d]) :
               hooklog[d][i][2] = Pending =>
                   i = Len(hooklog[d]) /\ pc[d] \in {"hook", "cancelled"}
        /\ pc[d] = "hook" =>
               /\ hooklog[d] # <<>>
               /\ Last(hooklog[d]) = <<message[d], Pending>>
               /\ outgoing[d] = NoMsg
        /\ pc[d] = "send" =>
               /\ outgoing[d] # NoMsg
               /\ message[d] = Last(MsgsOf(Consumed(d)))
        /\ pc[d] \in {"recv", "done"} => message[d] = NoMsg /\ outgoing[d] = NoMsg
        /\ (onerror # "none" /\ pc[d] # "cancelled") =>
               Len(MsgsOf(Consumed(d)))
                   = Len(sent[d]) + HookOutcomes(d, "None")
                       + HookOutcomes(d, "hookfail")
                       + Len(SendErrsOf(reported[d])) + InProgress(d)

\* Witness of C15: a read stream delivered [M1, E, M3]; the hook was called
\* for M1, whose result has been sent, was not called for E, and is now in its
\* call for M3.
C15_Witness ==
    \E d \in Dir :
        /\ produced[d] = <<Msg(1), TransportErr(2), Msg(3)>>
        /\ hooklog[d] = << <<Msg(1), Replaced(1)>>, <<Msg(3), Pending>> >>
        /\ sent[d] = <<Replaced(1)>>
        /\ pc[d] = "hook"

\* Once the cancel scope is cancelled, the cancellation is delivered to every
\* task at the await it is suspended in, and the task group's exit returns when
\* its tasks have ended.  Nothing is assumed of the transports, the consumers,
\* the hooks or the caller.
ShutdownFairness ==
    /\ \A d \in Dir : WF_vars(Cancelled(d))
    /\ WF_vars(Exited)

ShutdownSpec == Init /\ [][Next]_vars /\ ShutdownFairness

\* C16 (shutdown liveness): whenever the cancel scope has been cancelled (the
\* caller left the body, or the task group cancelled it), both loops eventually
\* have ended and the scope exit has completed, whatever the loops were doing:
\* waiting on an empty read stream, waiting in a send that the write stream
\* does not take, or inside a transform hook.
C16_ShutdownLiveness ==
    (scope = "Cancelling")
        ~> (scope = "Exited" /\ \A d \in Dir : pc[d] \in EndedPcs)

\* Witness of C16: the scope exit has completed; the client-to-server loop was
\* cancelled in a send that the stalled write stream never took (the message
\* was read but neither sent nor reported), the server-to-client loop inside
\* its transform hook.
C16_Witness ==
    /\ scope = "Exited" /\ onerror = "returns"
    /\ pc["c2s"] = "cancelled" /\ transform_fn["c2s"] = "none"
    /\ produced["c2s"] = <<Msg(1)>> /\ inbound["c2s"] = <<>>
    /\ sent["c2s"] = <<>> /\ reported["c2s"] = <<>>
    /\ outState["c2s"] = "full"
    /\ pc["s2c"] = "cancelled"
    /\ hooklog["s2c"] = << <<Msg(1), Pending>> >>

\* C17 (no duplication, fabrication, reordering or retry): every message on a
\* direction's write stream is what the loop was to send for a message already
\* taken from that direction's read stream (the result its transform hook
\* returned for it, or the message itself when no hook is configured); the
\* messages on the write stream follow the order in which their originals were
\* read, each original accounting for at most one of them; a message whose
\* send or transform was reported as failed is not on the write stream, and no
\* message has two failed sends.
C17_NoDuplicationNoRetry ==
    \A d \in Dir :
        /\ \A i \in 1..Len(sent[d]) :
               LET k == sent[d][i][2]
               IN  /\ Msg(k) \in Range(Consumed(d))
                   /\ transform_fn[d] = "none" => sent[d][i] = Msg(k)
                   /\ transform_fn[d] = "hook" =>
                          \E j \in 1..Len(hooklog[d]) :
                              hooklog[d][j] = <<Msg(k), sent[d][i]>>
        /\ \A i, j \in 1..Len(sent[d]) : i < j => sent[d][i][2] < sent[d][j][2]
        /\ Len(sent[d]) + Len(SendErrsOf(reported[d])) + InProgress(d)
               <= Len(MsgsOf(Consumed(d)))
        /\ \A j \in 1..Len(reported[d]) :
               reported[d][j][1] \in {"hookfail", "sendfail"} =>
                   /\ \A i \in 1..Len(sent[d]) : sent[d][i][2] # reported[d][j][2]
                   /\ \A l \in 1..Len(reported[d]) :
                          (l # j /\ reported[d][l][1] = "sendfail")
                              => reported[d][l][2] # reported[d][j][2]

\* Witness of C17: the hook replaced M1, failed on M2 and returned M3 as it
\* was; the write stream holds the replacement of M1 followed by M3.
C17_Witness ==
    \E d \in Dir :
        /\ produced[d] = <<Msg(1), Msg(2), Msg(3)>>
        /\ hooklog[d] = << <<Msg(1), Replaced(1)>>, <<Msg(2), HookErr(2)>>,
                           <<Msg(3), Msg(3)>> >>
        /\ sent[d] = <<Replaced(1), Msg(3)>>

\* C18 (routing): a message is identified by the read stream it was put on and
\* its position there.  Whatever is appended to the write stream of a direction
\* (server_write for "c2s", client_write for "s2c") is appended by that
\* direction's task and is what that task holds for the message it took from
\* that direction's read stream (client_read for "c2s", server_read for
\* "s2c"); a call of a direction's hook (on_client_message for "c2s",
\* on_server_message for "s2c") is made with the message just taken from that
\* direction's read stream; the step touches nothing of the other direction.
\* So every message on a direction's write stream, and every hook input of a
\* direction, stems from a message taken from that direction's read stream.
C18_Routing ==
    /\ [][\A d \in Dir :
            /\ sent'[d] # sent[d] =>
                   /\ pc[d] = "send" /\ pc'[d] = "recv"
                   /\ sent'[d] = Append(sent[d], outgoing[d])
                   /\ sent'[Other(d)] = sent[Other(d)]
                   /\ pc'[Other(d)] = pc[Other(d)]
            /\ Len(hooklog'[d]) > Len(hooklog[d]) =>
                   /\ pc[d] = "recv" /\ inbound[d] # <<>>
                   /\ hooklog'[d] = Append(hooklog[d], <<Head(inbound[d]), Pending>>)
                   /\ inbound'[d] = Tail(inbound[d])
                   /\ hooklog'[Other(d)] = hooklog[Other(d)]
                   /\ inbound'[Other(d)] = inbound[Other(d)]
            /\ (message'[d] # message[d] /\ message'[d] # NoMsg) =>
                   /\ inbound[d] # <<>> /\ message'[d] = Head(inbound[d])
                   /\ inbound'[d] = Tail(inbound[d])
            /\ (outgoing'[d] # outgoing[d] /\ outgoing'[d] # NoMsg) =>
                   \/ transform_fn[d] = "none" /\ outgoing'[d] = message'[d]
                   \/ /\ transform_fn[d] = "hook" /\ pc[d] = "hook"
                      /\ Last(hooklog'[d]) = <<message[d], outgoing'[d]>>]_vars
    /\ [](\A d \in Dir :
            /\ \A i \in 1..Len(sent[d]) : Msg(sent[d][i][2]) \in Range(Consumed(d))
            /\ \A i \in 1..Len(hooklog[d]) : hooklog[d][i][1] \in Range(Consumed(d))
            /\ message[d] # NoMsg => message[d] \in Range(Consumed(d))
            /\ Len(sent[d]) <= Len(MsgsOf(Consumed(d))))

\* Witness of C18: the client side sent two messages and the server side one,
\* each side with its own hook; the client-side hook saw exactly the two and
\* the server-facing write stream holds their two results, the server-side
\* hook saw exactly the one and the client-facing write stream holds it.
C18_Witness ==
    /\ produced["c2s"] = <<Msg(1), Msg(2)>> /\ produced["s2c"] = <<Msg(1)>>
    /\ hooklog["c2s"] = << <<Msg(1), Replaced(1)>>, <<Msg(2), Replaced(2)>> >>
    /\ hooklog["s2c"] = << <<Msg(1), Msg(1)>> >>
    /\ sent["c2s"] = <<Replaced(1), Replaced(2)>>
    /\ sent["s2c"] = <<Msg(1)>>

\* The step in which d's task takes a transport error from its read stream.
ErrorItemStep(d) ==
    /\ scope = "Running" /\ pc[d] = "recv"
    /\ inbound[d] # <<>> /\ IsException(Head(inbound[d]))
    /\ inbound'[d] = Tail(inbound[d])

RaisesFirstContinues ==
    /\ onerror = "raises_first"
    /\ produced["c2s"] = <<TransportErr(1), Msg(2)>>
    /\ reported["c2s"] = <<TransportErr(1), HandlerErr>>
    /\ sent["c2s"] = <<Msg(2)>>

====
